---- MODULE Spec2Model ----
(***************************************************************************)
(* Dense square matrices (src/src/lib.rs) and the four multiplication      *)
(* strategies multiply, multiply_blocked, multiply_iter and multiply_rayon.*)
(*                                                                         *)
(* A run builds one matrix and accesses it by index, or builds two         *)
(* operands and calls the four multipliers on them, one call after the     *)
(* other.  Every execution of a loop body is one step, so the order in     *)
(* which cells are updated and buffers are read is visible in the state.   *)
(* Offsets into a buffer are 0-based as in the source; the sequences that  *)
(* hold the buffers are 1-based, hence the "+ 1" at every access.          *)
(***************************************************************************)
EXTENDS Integers, Sequences, FiniteSets

----------------------------------------------------------------------------
(* Bounds of the model *)

\* largest dimension a constructor is asked for
MaxN == 4
\* most indexed accesses performed on a matrix after it is built
MaxAccess == 2
\* bits of significand of an Element (f64 has 53); sums and products round
Precision == 2
\* largest element of the vectors handed to new
MaxElem == 3

\* tile size, Matrix::BLOCK (64 in the source, scaled so that two tiles per
\* axis fit in MaxN)
BLOCK == 2

Dims == 0..MaxN
MaxLen == MaxN * MaxN + 1
Seeds == {0, 1}
\* the worker threads of the pool that runs the row tasks of multiply_rayon
Workers == {"w1", "w2"}

----------------------------------------------------------------------------
(* Element = f64: every sum and product is rounded to Precision bits,      *)
(* to nearest, ties to the even significand.                               *)

RECURSIVE DropBits(_)
DropBits(x) == IF x < 2^Precision THEN 0 ELSE 1 + DropBits(x \div 2)

RoundAbs(x) ==
    LET e == DropBits(x)
        q == x \div 2^e
        r == x % 2^e
        up == 2 * r > 2^e \/ (2 * r = 2^e /\ q % 2 = 1)
    IN  IF e = 0 THEN x ELSE (IF up THEN q + 1 ELSE q) * 2^e

Round(x) == IF x < 0 THEN -RoundAbs(-x) ELSE RoundAbs(x)

FAdd(x, y) == Round(x + y)
FMul(x, y) == Round(x * y)

----------------------------------------------------------------------------
(* Matrix *)

\* no matrix: the value of a variable whose matrix does not exist (yet)
Null == [n |-> -1, values |-> <<>>]
Exists(m) == m.n >= 0

\* new without its assertion
new_unchecked(n, values) == [ok |-> TRUE, m |-> [n |-> n, values |-> values]]

\* Matrix::new: the assertion n * n == values.len(), then the struct
new(n, values) ==
    IF n * n = Len(values)
    THEN [ok |-> TRUE, m |-> [n |-> n, values |-> values]]
    ELSE [ok |-> FALSE, m |-> Null]

\* Matrix::zero
zero(n) == new(n, [p \in 1..(n * n) |-> 0]).m

\* Index: &self.values[self.n * index.0 + index.1], the buffer's bounds check
index(m, i, j) ==
    LET off == m.n * i + j
    IN  IF off < Len(m.values)
        THEN [ok |-> TRUE, val |-> m.values[off + 1]]
        ELSE [ok |-> FALSE, val |-> 0]

\* IndexMut followed by an assignment of v
index_mut(m, i, j, v) ==
    LET off == m.n * i + j
    IN  IF off < Len(m.values)
        THEN [ok |-> TRUE, m |-> [m EXCEPT !.values[off + 1] = v]]
        ELSE [ok |-> FALSE, m |-> m]

\* Matrix::id: zero(n), then m[(i, i)] = 1.0 for i in 0..n
RECURSIVE id_loop(_, _)
id_loop(m, i) ==
    IF i >= m.n THEN m ELSE id_loop(index_mut(m, i, i, 1).m, i + 1)

id(n) == id_loop(zero(n), 0)

\* rng.gen_range(-1.0..1.0): the p-th draw of the generator in state seed;
\* the Elements of [-1, 1) are -1 and 0
gen_range(seed, p) == -(((seed + 2) * p + p \div 3) % 2)

\* Matrix::random
random(n, seed) == new(n, [p \in 1..(n * n) |-> gen_range(seed, p)]).m

\* number_of_blocks without its assertion
number_of_blocks_unchecked(m) == [ok |-> TRUE, val |-> m.n \div BLOCK]

\* Matrix::number_of_blocks: the alignment assertion, then n / BLOCK
number_of_blocks(m) ==
    IF m.n % BLOCK = 0
    THEN [ok |-> TRUE, val |-> m.n \div BLOCK]
    ELSE [ok |-> FALSE, val |-> 0]

\* the vectors callers hand to new, such as vec![1.0, 2.0, 3.0, 4.0] and
\* vec![4.0, 3.0, 2.0, 1.0]
TestVector(len, seed) ==
    [p \in 1..len |->
        IF seed = 0 THEN 1 + ((p - 1) % MaxElem)
        ELSE MaxElem - ((p * p) % (MaxElem + 1))]

----------------------------------------------------------------------------
(* Loop positions.  A position names the next execution of a loop body;    *)
(* done means the loop nest is exhausted.                                  *)

Pos(ii, jj, kk, i, j, k, done) ==
    [ii |-> ii, jj |-> jj, kk |-> kk, i |-> i, j |-> j, k |-> k, done |-> done]

NoPos == Pos(0, 0, 0, 0, 0, 0, TRUE)

\* multiply: for i in 0..size { for j in 0..size { for k in 0..size
NaiveFirst(size) == Pos(0, 0, 0, 0, 0, 0, size = 0)

NaiveNext(p, size) ==
    IF p.k + 1 < size THEN [p EXCEPT !.k = @ + 1]
    ELSE IF p.j + 1 < size THEN [p EXCEPT !.j = @ + 1, !.k = 0]
    ELSE IF p.i + 1 < size THEN [p EXCEPT !.i = @ + 1, !.j = 0, !.k = 0]
    ELSE [p EXCEPT !.done = TRUE]

\* a tile range that forgets the tile's offset
TileRangeNoOffset(t, s) == [lo |-> 0, hi |-> s]

\* the range of one tile: t * s..(t + 1) * s
TileRange(t, s) == [lo |-> t * s, hi |-> (t + 1) * s]

\* multiply_blocked: for ii, jj, kk in 0..nn, then i, j, k in their tiles
BlockedFirst(nn, s) == Pos(0, 0, 0, 0, 0, 0, nn = 0 \/ s = 0)

BlockedNext(p, nn, s) ==
    IF p.k + 1 < TileRange(p.kk, s).hi THEN [p EXCEPT !.k = @ + 1]
    ELSE IF p.j + 1 < TileRange(p.jj, s).hi
        THEN [p EXCEPT !.j = @ + 1, !.k = TileRange(p.kk, s).lo]
    ELSE IF p.i + 1 < TileRange(p.ii, s).hi
        THEN [p EXCEPT !.i = @ + 1, !.j = TileRange(p.jj, s).lo,
                       !.k = TileRange(p.kk, s).lo]
    ELSE IF p.kk + 1 < nn
        THEN Pos(p.ii, p.jj, p.kk + 1, TileRange(p.ii, s).lo,
                 TileRange(p.jj, s).lo, TileRange(p.kk + 1, s).lo, FALSE)
    ELSE IF p.jj + 1 < nn
        THEN Pos(p.ii, p.jj + 1, 0, TileRange(p.ii, s).lo,
                 TileRange(p.jj + 1, s).lo, TileRange(0, s).lo, FALSE)
    ELSE IF p.ii + 1 < nn
        THEN Pos(p.ii + 1, 0, 0, TileRange(p.ii + 1, s).lo,
                 TileRange(0, s).lo, TileRange(0, s).lo, FALSE)
    ELSE [p EXCEPT !.done = TRUE]

\* pieces that start size - 1 apart, so that neighbours share an element
chunks_overlapping(len, size) ==
    IF size = 0 THEN [ok |-> FALSE, of |-> <<>>]
    ELSE LET cnt == (len + size - 1) \div size
         IN  [ok |-> TRUE,
              of |-> [r \in 0..(cnt - 1) |->
                        [start |-> r * (size - 1), len |-> size]]]

\* chunks / chunks_mut / par_chunks / par_chunks_mut: consecutive pieces of
\* `size` elements (the last one shorter); a chunk size of 0 panics
chunks(len, size) ==
    IF size = 0 THEN [ok |-> FALSE, of |-> <<>>]
    ELSE LET cnt == (len + size - 1) \div size
         IN  [ok |-> TRUE,
              of |-> [r \in 0..(cnt - 1) |->
                        [start |-> r * size,
                         len |-> IF len - r * size < size
                                 THEN len - r * size ELSE size]]]

\* the closure of multiply_iter and multiply_rayon on one (cv, av) pair:
\* for jj in 0..nn { for (i, c) in cv { for j in jj * s..(jj + 1) * s
Task(jj, i, j, done) ==
    [jj |-> jj, i |-> i, j |-> j, done |-> done, busy |-> FALSE,
     bprev |-> -1, bcur |-> -1]

RowFirst(nn, cvlen, s) == Task(0, 0, 0, nn = 0 \/ cvlen = 0 \/ s = 0)

RowNext(t, nn, cvlen, s) ==
    IF t.j + 1 < (t.jj + 1) * s THEN [t EXCEPT !.j = @ + 1]
    ELSE IF t.i + 1 < cvlen THEN [t EXCEPT !.i = @ + 1, !.j = t.jj * s]
    ELSE IF t.jj + 1 < nn
        THEN [t EXCEPT !.jj = @ + 1, !.i = 0, !.j = (t.jj + 1) * s]
    ELSE [t EXCEPT !.done = TRUE, !.busy = FALSE]

\* b read with its coordinates swapped
BOffsetAlongRow(j, n, i) == i * n + j

\* b.values[j * n + i]
BOffset(j, n, i) == j * n + i

----------------------------------------------------------------------------
(* State *)

VARIABLES
    pc,       \* "start", "built1", "access", "ready", "running", "aborted"
    m1, m2,   \* the matrices built so far (Null: not built)
    req,      \* the dimension and the number of values last asked of a constructor
    panic,    \* the condition that aborted the run ("" while it runs)
    acc,      \* the last indexed access and what it gave
    nacc,     \* number of indexed accesses so far
    call,     \* the multiplier being called, or to be called next
    outcome,  \* per multiplier: "none", "ok", or the condition it failed with
    res,      \* per multiplier: the matrix it returned (Null: none)
    c,        \* the result matrix under construction in the running call
    idx,      \* loop position of multiply and multiply_blocked
    tasks,    \* per output row: state of the closure of multiply_iter / _rayon
    klog,     \* per output cell: the summation indices added so far, in order
    writers   \* per output cell: the tasks that wrote it

vars == <<pc, m1, m2, req, panic, acc, nacc, call, outcome, res, c, idx,
          tasks, klog, writers>>

Multipliers == {"multiply", "multiply_blocked", "multiply_iter", "multiply_rayon"}

\* the calls are made in the order of tests::consistent
NextCall(f) ==
    CASE f = "multiply" -> "multiply_blocked"
      [] f = "multiply_blocked" -> "multiply_iter"
      [] f = "multiply_iter" -> "multiply_rayon"
      [] OTHER -> "none"

NoAccess == [kind |-> "none", i |-> 0, j |-> 0, ok |-> TRUE, val |-> 0]

Init ==
    /\ pc = "start"
    /\ m1 = Null
    /\ m2 = Null
    /\ req = [n |-> 0, len |-> 0]
    /\ panic = ""
    /\ acc = NoAccess
    /\ nacc = 0
    /\ call = "multiply"
    /\ outcome = [f \in Multipliers |-> "none"]
    /\ res = [f \in Multipliers |-> Null]
    /\ c = Null
    /\ idx = NoPos
    /\ tasks = <<>>
    /\ klog = <<>>
    /\ writers = <<>>

----------------------------------------------------------------------------
(* Construction: the first matrix built is m1, the second m2 *)

Building == pc \in {"start", "built1"}

Store(m) ==
    IF pc = "start"
    THEN m1' = m /\ m2' = m2 /\ pc' = "built1"
    ELSE m1' = m1 /\ m2' = m /\ pc' = "ready"

Built(n, len, r) ==
    /\ req' = [n |-> n, len |-> len]
    /\ IF r.ok
       THEN Store(r.m) /\ panic' = panic
       ELSE pc' = "aborted" /\ panic' = "DimensionMismatch" /\ UNCHANGED <<m1, m2>>
    /\ UNCHANGED <<acc, nacc, call, outcome, res, c, idx, tasks, klog, writers>>

NewMatrix ==
    /\ Building
    /\ \E n \in Dims, len \in 0..MaxLen, seed \in Seeds :
          Built(n, len, new(n, TestVector(len, seed)))

ZeroMatrix ==
    /\ Building
    /\ \E n \in Dims : Built(n, n * n, [ok |-> TRUE, m |-> zero(n)])

IdMatrix ==
    /\ Building
    /\ \E n \in Dims : Built(n, n * n, [ok |-> TRUE, m |-> id(n)])

RandomMatrix ==
    /\ Building
    /\ \E n \in Dims, seed \in Seeds :
          Built(n, n * n, [ok |-> TRUE, m |-> random(n, seed)])

----------------------------------------------------------------------------
(* Indexed access to m1: m[(i, j)] and m[(i, j)] = v *)

Accessing == pc \in {"built1", "access"} /\ nacc < MaxAccess

Accessed(kind, i, j, ok, val) ==
    /\ acc' = [kind |-> kind, i |-> i, j |-> j, ok |-> ok, val |-> val]
    /\ nacc' = nacc + 1
    /\ IF ok
       THEN pc' = "access" /\ panic' = panic
       ELSE pc' = "aborted" /\ panic' = "IndexOutOfRange"
    /\ UNCHANGED <<m2, req, call, outcome, res, c, idx, tasks, klog, writers>>

IndexRead ==
    /\ Accessing
    /\ \E i \in Dims, j \in Dims :
          LET r == index(m1, i, j)
          IN  Accessed("read", i, j, r.ok, r.val) /\ m1' = m1

IndexWrite ==
    /\ Accessing
    /\ \E i \in Dims, j \in Dims :
          LET v == MaxElem + 1
              r == index_mut(m1, i, j, v)
          IN  Accessed("write", i, j, r.ok, v) /\ m1' = r.m

----------------------------------------------------------------------------
(* The multipliers.  f_call is the function's prologue (assertions and     *)
(* allocations), f_step one execution of its innermost loop body, f_ret    *)
(* its return.                                                             *)

Calling(f) == pc = "ready" /\ call = f
Running(f) == pc = "running" /\ call = f

\* the call of f ends: it returns `result`, or panics with condition `how`
Finish(f, how, result) ==
    /\ outcome' = [outcome EXCEPT ![f] = how]
    /\ res' = [res EXCEPT ![f] = result]
    /\ call' = NextCall(f)
    /\ pc' = "ready"
    /\ c' = Null

EmptyLog(m) == [p \in 1..Len(m.values) |-> <<>>]
NoWriters(m) == [p \in 1..Len(m.values) |-> {}]

\* c[(i, j)] += a[(i, k)] * b[(k, j)], as one step of `f`
MulAdd(f, i, j, k, next) ==
    LET x == index(m1, i, k)
        y == index(m2, k, j)
        old == index(c, i, j)
        w == index_mut(c, i, j, FAdd(old.val, FMul(x.val, y.val)))
    IN  IF x.ok /\ y.ok /\ old.ok
        THEN /\ c' = w.m
             /\ idx' = next
             /\ klog' = [klog EXCEPT ![c.n * i + j + 1] = Append(@, k)]
             /\ UNCHANGED <<pc, call, outcome, res>>
        ELSE /\ Finish(f, "IndexOutOfRange", Null)
             /\ UNCHANGED <<idx, klog>>

multiply_call ==
    /\ Calling("multiply")
    /\ IF m1.n # m2.n
       THEN /\ Finish("multiply", "DimensionMismatch", Null)
            /\ UNCHANGED <<idx, klog>>
       ELSE /\ c' = zero(m1.n)
            /\ idx' = NaiveFirst(m1.n)
            /\ klog' = EmptyLog(zero(m1.n))
            /\ pc' = "running"
            /\ UNCHANGED <<call, outcome, res>>
    /\ UNCHANGED <<m1, m2, req, panic, acc, nacc, tasks, writers>>

multiply_step ==
    /\ Running("multiply")
    /\ ~idx.done
    /\ MulAdd("multiply", idx.i, idx.j, idx.k, NaiveNext(idx, m1.n))
    /\ UNCHANGED <<m1, m2, req, panic, acc, nacc, tasks, writers>>

multiply_ret ==
    /\ Running("multiply")
    /\ idx.done
    /\ Finish("multiply", "ok", c)
    /\ UNCHANGED <<m1, m2, req, panic, acc, nacc, idx, tasks, klog, writers>>

multiply_blocked_call ==
    /\ Calling("multiply_blocked")
    /\ IF m1.n # m2.n
       THEN /\ Finish("multiply_blocked", "DimensionMismatch", Null)
            /\ UNCHANGED <<idx, klog>>
       ELSE IF ~number_of_blocks(m1).ok
       THEN /\ Finish("multiply_blocked", "UnalignedSize", Null)
            /\ UNCHANGED <<idx, klog>>
       ELSE /\ c' = zero(m1.n)
            /\ idx' = BlockedFirst(number_of_blocks(m1).val, BLOCK)
            /\ klog' = EmptyLog(zero(m1.n))
            /\ pc' = "running"
            /\ UNCHANGED <<call, outcome, res>>
    /\ UNCHANGED <<m1, m2, req, panic, acc, nacc, tasks, writers>>

multiply_blocked_step ==
    /\ Running("multiply_blocked")
    /\ ~idx.done
    /\ MulAdd("multiply_blocked", idx.i, idx.j, idx.k,
              BlockedNext(idx, number_of_blocks(m1).val, BLOCK))
    /\ UNCHANGED <<m1, m2, req, panic, acc, nacc, tasks, writers>>

multiply_blocked_ret ==
    /\ Running("multiply_blocked")
    /\ idx.done
    /\ Finish("multiply_blocked", "ok", c)
    /\ UNCHANGED <<m1, m2, req, panic, acc, nacc, idx, tasks, klog, writers>>

\* the prologue shared by multiply_iter and multiply_rayon, up to the zip of
\* the chunks of c.values with the chunks of a.values
RowsCall(f) ==
    /\ Calling(f)
    /\ IF m1.n # m2.n
       THEN /\ Finish(f, "DimensionMismatch", Null)
            /\ UNCHANGED <<tasks, klog, writers>>
       ELSE IF ~number_of_blocks(m1).ok
       THEN /\ Finish(f, "UnalignedSize", Null)
            /\ UNCHANGED <<tasks, klog, writers>>
       ELSE LET n == m1.n
                z == zero(n)
                cc == chunks(Len(z.values), n)
                aa == chunks(Len(m1.values), n)
            IN  IF ~cc.ok \/ ~aa.ok
                THEN /\ Finish(f, "ChunkSizeZero", Null)
                     /\ UNCHANGED <<tasks, klog, writers>>
                ELSE /\ c' = z
                     /\ tasks' = [r \in (DOMAIN cc.of) \cap (DOMAIN aa.of) |->
                                    RowFirst(number_of_blocks(m1).val,
                                             cc.of[r].len, BLOCK)]
                     /\ klog' = EmptyLog(z)
                     /\ writers' = NoWriters(z)
                     /\ pc' = "running"
                     /\ UNCHANGED <<call, outcome, res>>
    /\ UNCHANGED <<m1, m2, req, panic, acc, nacc, idx>>

\* one execution of *c += av[j] * b.values[j * n + i] in the closure of row r
RowStep(f, r) ==
    LET t == tasks[r]
        n == m1.n
        cv == chunks(Len(c.values), n).of[r]
        av == chunks(Len(m1.values), n).of[r]
        boff == BOffset(t.j, n, t.i)
        coff == cv.start + t.i
    IN  /\ ~t.done
        /\ IF t.j < av.len /\ boff < Len(m2.values)
           THEN /\ c' = [c EXCEPT !.values[coff + 1] =
                            FAdd(@, FMul(m1.values[av.start + t.j + 1],
                                         m2.values[boff + 1]))]
                /\ tasks' = [tasks EXCEPT ![r] =
                                [RowNext([t EXCEPT !.busy = TRUE],
                                         number_of_blocks(m1).val, cv.len, BLOCK)
                                    EXCEPT !.bprev = t.bcur, !.bcur = boff]]
                /\ klog' = [klog EXCEPT ![coff + 1] = Append(@, t.j)]
                /\ writers' = [writers EXCEPT ![coff + 1] = @ \cup {r}]
                /\ UNCHANGED <<pc, call, outcome, res>>
           ELSE /\ Finish(f, "IndexOutOfRange", Null)
                /\ UNCHANGED <<tasks, klog, writers>>
        /\ UNCHANGED <<m1, m2, req, panic, acc, nacc, idx>>

\* a join that waits for the first row only
JoinedEarly == \E r \in DOMAIN tasks : tasks[r].done

\* for_each is over: the closure has run to its end on every pair of chunks
Joined == \A r \in DOMAIN tasks : tasks[r].done

RowsRet(f) ==
    /\ Running(f)
    /\ Joined
    /\ Finish(f, "ok", c)
    /\ UNCHANGED <<m1, m2, req, panic, acc, nacc, idx, tasks, klog, writers>>

multiply_iter_call == RowsCall("multiply_iter")

\* for_each on the calling thread: the rows in order, each to its end
multiply_iter_step ==
    /\ Running("multiply_iter")
    /\ \E r \in DOMAIN tasks :
          /\ \A q \in DOMAIN tasks : q < r => tasks[q].done
          /\ RowStep("multiply_iter", r)

multiply_iter_ret == RowsRet("multiply_iter")

multiply_rayon_call == RowsCall("multiply_rayon")

\* the rows a worker thread is in the middle of
Busy == {r \in DOMAIN tasks : tasks[r].busy}

\* for_each on the pool: a worker goes on with its row, or an idle worker
\* takes any row not yet taken
multiply_rayon_step ==
    /\ Running("multiply_rayon")
    /\ \E r \in DOMAIN tasks :
          /\ r \in Busy \/ Cardinality(Busy) < Cardinality(Workers)
          /\ RowStep("multiply_rayon", r)

\* the join: for_each returns once every row is processed
multiply_rayon_ret == RowsRet("multiply_rayon")

----------------------------------------------------------------------------

Next ==
    \/ NewMatrix
    \/ ZeroMatrix
    \/ IdMatrix
    \/ RandomMatrix
    \/ IndexRead
    \/ IndexWrite
    \/ multiply_call
    \/ multiply_step
    \/ multiply_ret
    \/ multiply_blocked_call
    \/ multiply_blocked_step
    \/ multiply_blocked_ret
    \/ multiply_iter_call
    \/ multiply_iter_step
    \/ multiply_iter_ret
    \/ multiply_rayon_call
    \/ multiply_rayon_step
    \/ multiply_rayon_ret

Spec == Init /\ [][Next]_vars

\* main with the argument "rayon": two operands random(size) of one size,
\* then a call of multiply_rayon
RayonInit ==
    /\ pc = "ready"
    /\ \E n \in Dims, s1 \in Seeds, s2 \in Seeds :
          /\ m1 = random(n, s1)
          /\ m2 = random(n, s2)
          /\ req = [n |-> n, len |-> n * n]
    /\ panic = ""
    /\ acc = NoAccess
    /\ nacc = 0
    /\ call = "multiply_rayon"
    /\ outcome = [f \in Multipliers |-> "none"]
    /\ res = [f \in Multipliers |-> Null]
    /\ c = Null
    /\ idx = NoPos
    /\ tasks = <<>>
    /\ klog = <<>>
    /\ writers = <<>>

RayonNext ==
    \/ multiply_rayon_call
    \/ multiply_rayon_step
    \/ multiply_rayon_ret

\* the pool runs every row task it was given, and the caller joins
RayonSpec ==
    /\ RayonInit
    /\ [][RayonNext]_vars
    /\ WF_vars(multiply_rayon_step)
    /\ WF_vars(multiply_rayon_ret)

----------------------------------------------------------------------------
(* Properties *)

Rows == {"multiply_iter", "multiply_rayon"}
Tiled == {"multiply_blocked", "multiply_iter", "multiply_rayon"}

\* both operands are built
Operands == pc \in {"ready", "running"}
SameDim == Operands /\ m1.n = m2.n
Aligned == m1.n % BLOCK = 0
Called(f) == outcome[f] # "none"
AllDone == \A r \in DOMAIN tasks : tasks[r].done
Live == {m \in {m1, m2, c} \cup {res[f] : f \in Multipliers} : Exists(m)}

\* C1: on operands of the same dimension n, n a multiple of BLOCK, every
\* multiplier returns a matrix, and all of them return the same matrix,
\* element for element
C1_Consistent ==
    SameDim /\ Aligned =>
        \A f \in Multipliers, g \in Multipliers :
            Called(f) /\ Called(g) => outcome[f] = "ok" /\ res[f] = res[g]

\* the multipliers agree on operands of a positive dimension
ConsistentNonEmpty ==
    SameDim /\ Aligned /\ m1.n > 0 =>
        \A f \in Multipliers, g \in Multipliers :
            Called(f) /\ Called(g) => outcome[f] = "ok" /\ res[f] = res[g]

\* C2: id(n) times R is R under every multiplier, n a multiple of BLOCK
C2_IdentityLaw ==
    SameDim /\ Aligned /\ m1 = id(m1.n) =>
        \A f \in Multipliers : Called(f) => outcome[f] = "ok" /\ res[f] = m2

\* the identity law on operands of a positive dimension
IdentityNonEmpty ==
    SameDim /\ Aligned /\ m1.n > 0 /\ m1 = id(m1.n) =>
        \A f \in Multipliers : Called(f) => outcome[f] = "ok" /\ res[f] = m2

\* C3: on operands of one dimension n that is no multiple of BLOCK, the
\* tiled multipliers fail with UnalignedSize, allocate nothing and return
\* nothing; multiply returns a result for every pair of one dimension
C3_Alignment ==
    SameDim =>
        /\ ~Aligned =>
              \A f \in Tiled :
                  /\ Called(f) => outcome[f] = "UnalignedSize"
                  /\ ~Running(f)
                  /\ res[f] = Null
        /\ Called("multiply") =>
              /\ outcome["multiply"] = "ok"
              /\ Exists(res["multiply"])
              /\ res["multiply"].n = m1.n

C3_Witness ==
    /\ SameDim
    /\ ~Aligned
    /\ outcome["multiply"] = "ok"
    /\ \A f \in Tiled : outcome[f] = "UnalignedSize"

\* C4: the tiled multipliers fail alike: DimensionMismatch when the
\* dimensions differ, else UnalignedSize when n is no multiple of BLOCK,
\* and otherwise all three return
C4_SameFailures ==
    Operands =>
        \A f \in Tiled :
            Called(f) =>
                outcome[f] = IF m1.n # m2.n THEN "DimensionMismatch"
                             ELSE IF ~Aligned THEN "UnalignedSize"
                             ELSE "ok"

\* C5: an access m[(i, j)] with i >= n or j >= n fails with IndexOutOfRange
C5_IndexChecked ==
    acc.kind # "none" /\ (acc.i >= m1.n \/ acc.j >= m1.n) =>
        ~acc.ok /\ panic = "IndexOutOfRange"

\* every matrix that exists holds n * n values, and a constructor asked for
\* a length other than n * n fails with DimensionMismatch and builds nothing
DimensionOk ==
    /\ \A m \in Live : Len(m.values) = m.n * m.n
    /\ req.len # req.n * req.n =>
          /\ pc = "aborted"
          /\ panic = "DimensionMismatch"
          /\ ~Exists(m2)

\* a step leaves the dimension of every matrix that exists as it is, and a
\* returned matrix as it is
DimensionKept ==
    /\ Exists(m1) => m1'.n = m1.n
    /\ Exists(m2) => m2'.n = m2.n
    /\ Exists(c) /\ Exists(c') => c'.n = c.n
    /\ \A f \in Multipliers : Exists(res[f]) => res'[f] = res[f]

\* C6: new fails with DimensionMismatch when len(values) # n * n and builds
\* nothing then; every matrix that exists (an operand, also after indexed
\* writes, a result under construction, a returned result) holds n * n
\* values; a matrix keeps its dimension for as long as it exists
C6_DimensionInvariant == []DimensionOk /\ [][DimensionKept]_vars

C6_Witness ==
    /\ panic = "DimensionMismatch"
    /\ req.len # req.n * req.n
    /\ Exists(m1)
    /\ m1.n > 0

\* the row that owns the cell at 1-based position p of the output buffer
Owner(p) == (p - 1) \div m1.n

\* the log of writers is that of multiply_rayon
RayonLog ==
    \/ Running("multiply_rayon")
    \/ call = "none" /\ outcome["multiply_rayon"] = "ok"

\* a cell is written by the task that owns it and by no other, and by that
\* one once the tasks are over; every cell lies in exactly one task's chunk
OneWriter ==
    RayonLog =>
        /\ \A p \in DOMAIN writers : writers[p] \subseteq {Owner(p)}
        /\ AllDone => \A p \in DOMAIN writers : writers[p] = {Owner(p)}
        /\ LET cc == chunks(m1.n * m1.n, m1.n).of
           IN  \A p \in DOMAIN writers :
                 Cardinality({r \in DOMAIN cc :
                     cc[r].start < p /\ p <= cc[r].start + cc[r].len}) = 1

\* a step of multiply_rayon leaves the operands as they are
OperandsKept == Operands /\ call = "multiply_rayon" => m1' = m1 /\ m2' = m2

\* C7: in multiply_rayon the tasks' regions are disjoint rows that cover the
\* output; under every interleaving a cell is written by the one task that
\* owns it and by no other, and the operands are never written
C7_DisjointWriters == []OneWriter /\ [][OperandsKept]_vars

C7_Witness ==
    /\ Running("multiply_rayon")
    /\ Cardinality(Busy) = 2
    /\ \E r \in DOMAIN tasks : tasks[r].done
    /\ \E r \in DOMAIN tasks : ~tasks[r].done /\ ~tasks[r].busy

\* multiply_rayon has returned only if every row task is over and every
\* cell of the result has received all its n terms
JoinedAtReturn ==
    outcome["multiply_rayon"] = "ok" =>
        /\ AllDone
        /\ DOMAIN tasks = 0..(m1.n - 1)
        /\ \A p \in DOMAIN klog : Len(klog[p]) = m1.n
        /\ Len(res["multiply_rayon"].values) = m1.n * m1.n

RECURSIVE SumTo(_, _, _)
SumTo(i, j, cnt) ==
    IF cnt = 0 THEN 0
    ELSE FAdd(SumTo(i, j, cnt - 1),
              FMul(m1.values[m1.n * i + (cnt - 1) + 1],
                   m2.values[m1.n * (cnt - 1) + j + 1]))

\* the loops of the running call are exhausted
Exhausted ==
    IF call \in Rows THEN AllDone ELSE idx.done

\* C9: under each multiplier every cell starts at zero and receives its
\* terms a[i][k] * b[k][j] one at a time for k = 0, 1, ..., n - 1 in this
\* order, each k once
C9_CanonicalOrder ==
    pc = "running" =>
        \A p \in DOMAIN klog :
            /\ klog[p] = [q \in 1..Len(klog[p]) |-> q - 1]
            /\ Len(klog[p]) <= m1.n
            /\ c.values[p] = SumTo(Owner(p), (p - 1) % m1.n, Len(klog[p]))
            /\ Exhausted => Len(klog[p]) = m1.n

C9_Witness ==
    /\ Running("multiply_blocked")
    /\ m1.n = 2 * BLOCK
    /\ idx.done
    /\ \E p \in DOMAIN klog : c.values[p] # 0 /\ Len(klog[p]) = m1.n

\* the row tasks that have read B at least twice
Read2 == {r \in DOMAIN tasks : tasks[r].bprev >= 0}

====
